---- MODULE Spec2Model ----
(***************************************************************************)
(* A model of the Piet interpreter: the program grid and its regions       *)
(* (parse/src), the interpreter state and its stepping loop                *)
(* (interpret/src/interpreter.rs, state.rs) and the stack commands         *)
(* (interpret/src/command.rs).                                             *)
(*                                                                         *)
(* Spec     runs Interpreter::run on every grid of a small size.           *)
(* SpecCmd  applies one command of the table to every state of a bounded   *)
(*          set of states.                                                 *)
(* SpecIn   applies one command to states with and without input.          *)
(* SpecFill steps the flood fill of Program::get_region from every cell of *)
(*          every grid of a small size, then loads the grid.               *)
(***************************************************************************)
EXTENDS Integers, Sequences, FiniteSets, TLC

VARIABLES
    program,          \* Interpreter.program: rows, cols, points (codel and region per cell)
    state,            \* Interpreter.state (State), with the process's stdout and panic flag
    overflow_checks,  \* the build: TRUE when integer overflow panics, FALSE when it wraps
    phase,            \* "run": inside Interpreter::run; "ready"/"done": one command call
    prev,             \* history: the state before the last step
    last,             \* history: what the last step did
    attempts,         \* history: the <<direction, chooser>> pairs of the blocked advances
                      \* made since the last successful advance
    fill              \* the locals of one call of Program::get_region, its arguments
                      \* and the history of the cells it pushed on its work list

vars == <<program, state, overflow_checks, phase, prev, last, attempts, fill>>

---------------------------------------------------------------------------
\* Bounds of the model.

\* The grids that Spec runs have GridShape[1] rows and GridShape[2] columns.
GridShape == <<2, 3>>
Rows == GridShape[1]
Cols == GridShape[2]
\* Width in bits of the stack integers (isize), scaled down.
IntBits == 4
\* The run is cut when the stack or the output grow past these lengths.
MaxStack == 2
MaxOut == 1
\* Longest stack that SpecCmd starts a command on.
MaxCmdStack == 3
\* The followed call of get_region is cut after this many pushes on its work list.
MaxFillPushes == 40

---------------------------------------------------------------------------
\* Program constants.

HUE_CYCLE_SIZE == 6
LIGHTNESS_CYCLE_SIZE == 3
\* The value of termination_counter at which run stops.
TerminationLimit == 8

---------------------------------------------------------------------------
\* Sequences and machine integers.

Abs(x) == IF x < 0 THEN -x ELSE x

Pow2(n) == 2 ^ n

IntMin == -Pow2(IntBits - 1)
IntMax == Pow2(IntBits - 1) - 1
InRange(v) == IntMin <= v /\ v <= IntMax

\* Two's complement wrapping of a mathematical result to the width of isize.
Wrap(v) == ((v - IntMin) % Pow2(IntBits)) + IntMin

\* Rust's `/` and `%` on signed integers: the quotient truncates toward zero and
\* the remainder takes the sign of the dividend.
TruncDiv(a, b) ==
    LET q == Abs(a) \div Abs(b)
    IN  IF (a < 0) = (b < 0) THEN q ELSE -q
TruncRem(a, b) == a - b * TruncDiv(a, b)

Last(s) == s[Len(s)]
Front(s) == SubSeq(s, 1, Len(s) - 1)
Reverse(s) == [i \in 1..Len(s) |-> s[Len(s) + 1 - i]]
\* Vec::insert(index, element) and Vec::remove(index), 0-based, index in range.
InsertAt(s, index, e) == SubSeq(s, 1, index) \o <<e>> \o SubSeq(s, index + 1, Len(s))
RemoveAt(s, index) == SubSeq(s, 1, index) \o SubSeq(s, index + 2, Len(s))

---------------------------------------------------------------------------
\* parse/src/codel.rs: colours.

Black == [kind |-> "Black", hue |-> 0, lightness |-> 0]
White == [kind |-> "White", hue |-> 0, lightness |-> 0]
Color(h, l) == [kind |-> "Color", hue |-> h, lightness |-> l]

\* cyclic_distance that takes the absolute difference when next < current.
cyclic_distance_absolute(current, next, cycle_size) ==
    IF next >= current THEN next - current
    ELSE current - next

cyclic_distance(current, next, cycle_size) ==
    IF next >= current THEN next - current
    ELSE cycle_size - (current - next)

\* Option<(u8, u8)>: some is FALSE for None.
compare(self, next) ==
    IF self.kind = "Color" /\ next.kind = "Color"
    THEN [some |-> TRUE,
          hue |-> cyclic_distance(self.hue, next.hue, HUE_CYCLE_SIZE),
          lightness |-> cyclic_distance(self.lightness, next.lightness, LIGHTNESS_CYCLE_SIZE)]
    ELSE [some |-> FALSE, hue |-> 0, lightness |-> 0]

---------------------------------------------------------------------------
\* Directions (interpret/src/direction.rs, parse/src/direction.rs, chooser.rs).

Directions == {"Up", "Right", "Down", "Left"}
Choosers == {"Left", "Right"}

direction_next(d) ==
    CASE d = "Up" -> "Right"
      [] d = "Right" -> "Down"
      [] d = "Down" -> "Left"
      [] d = "Left" -> "Up"

direction_previous(d) == direction_next(direction_next(direction_next(d)))

chooser_next(c) == IF c = "Left" THEN "Right" ELSE "Left"

with_chooser(d, chooser) ==
    IF chooser = "Left" THEN direction_previous(d) ELSE direction_next(d)

---------------------------------------------------------------------------
\* parse/src/program.rs: the grid, its regions and the geometry.
\* A colour grid is [rows, cols, at], `at` mapping <<row, col>> to a colour.

Cells(rows, cols) == (0..(rows - 1)) \X (0..(cols - 1))

\* colors.get(row).and_then(|row| row.get(col))
color_get(colors, point) ==
    IF point \in Cells(colors.rows, colors.cols)
    THEN [some |-> TRUE, color |-> colors.at[point]]
    ELSE [some |-> FALSE, color |-> Black]

\* neighbors without the cells above and to the left.
neighbors_down_right(point) ==
    << <<point[1] + 1, point[2]>>, <<point[1], point[2] + 1>> >>

neighbors(point) ==
    LET row == point[1]
        col == point[2]
        first == IF row >= 1 /\ col >= 1 THEN << <<row - 1, col>>, <<row, col - 1>> >>
                 ELSE IF row >= 1 THEN << <<row - 1, col>> >>
                 ELSE IF col >= 1 THEN << <<row, col - 1>> >>
                 ELSE << >>
    IN  first \o << <<row + 1, col>>, <<row, col + 1>> >>

\* fill_step that takes every cell of the grid for a cell of the colour.
fill_step_any_colour(colors, color, f) ==
    LET neighbor == Last(f.neighbors)
        rest == Front(f.neighbors)
        n_color == color_get(colors, neighbor)
        ns == neighbors(neighbor)
        unseen == SelectSeq(ns, LAMBDA n : n \notin f.seen)
    IN  IF n_color.some
        THEN [members |-> f.members \cup {neighbor},
              neighbors |-> rest \o unseen,
              seen |-> IF unseen = << >> THEN f.seen ELSE f.seen \cup {neighbor}]
        ELSE [f EXCEPT !.neighbors = rest]

\* One iteration of the `while let Some(neighbor) = neighbors.pop()` loop of
\* get_region on the work list f.neighbors (a stack: its top is its last element).
fill_step(colors, color, f) ==
    LET neighbor == Last(f.neighbors)
        rest == Front(f.neighbors)
        n_color == color_get(colors, neighbor)
        ns == neighbors(neighbor)
        unseen == SelectSeq(ns, LAMBDA n : n \notin f.seen)
    IN  IF n_color.some /\ n_color.color = color
        THEN [members |-> f.members \cup {neighbor},
              neighbors |-> rest \o unseen,
              seen |-> IF unseen = << >> THEN f.seen ELSE f.seen \cup {neighbor}]
        ELSE [f EXCEPT !.neighbors = rest]

RECURSIVE fill_loop(_, _, _)
fill_loop(colors, color, f) ==
    IF f.neighbors = << >> THEN f.members
    ELSE fill_loop(colors, color, fill_step(colors, color, f))

\* Region::new(members): size is members.len().
Region_new(members) == [members |-> members, size |-> Cardinality(members)]

get_region(colors, point) ==
    Region_new(fill_loop(colors, colors.at[point],
                         [members |-> {}, neighbors |-> <<point>>, seen |-> {point}]))

\* The row-major scan of get_codels: `regions` maps the cells seen so far to their
\* region; a cell not yet in it gets the region built from that cell.
RECURSIVE get_codels_scan(_, _, _)
get_codels_scan(colors, index, regions) ==
    IF index = colors.rows * colors.cols THEN regions
    ELSE LET location == <<index \div colors.cols, index % colors.cols>>
         IN  IF location \in DOMAIN regions
             THEN get_codels_scan(colors, index + 1, regions)
             ELSE LET region == get_region(colors, location)
                      added == [m \in (DOMAIN regions) \cup region.members |->
                                  IF m \in region.members THEN region ELSE regions[m]]
                  IN  get_codels_scan(colors, index + 1, added)

get_codels(colors) ==
    LET regions == get_codels_scan(colors, 0, [m \in {} |-> Region_new({})])
    IN  [p \in Cells(colors.rows, colors.cols) |->
            [color |-> colors.at[p], region |-> regions[p]]]

Program_new(colors) ==
    [points |-> get_codels(colors), rows |-> colors.rows, cols |-> colors.cols]

codel_at(prog, point) == prog.points[point]
color_at(prog, point) == codel_at(prog, point).color
region_at(prog, point) == codel_at(prog, point).region

\* next_point that finds nothing above row 1.
next_point_short_up(prog, start, direction) ==
    LET row == start[1]
        col == start[2]
        maybe_next ==
            CASE direction = "Up" ->
                    IF row > 1 THEN [some |-> TRUE, point |-> <<row - 1, col>>]
                    ELSE [some |-> FALSE, point |-> start]
              [] direction = "Down" ->
                    IF row + 1 < prog.rows THEN [some |-> TRUE, point |-> <<row + 1, col>>]
                    ELSE [some |-> FALSE, point |-> start]
              [] direction = "Left" ->
                    IF col >= 1 THEN [some |-> TRUE, point |-> <<row, col - 1>>]
                    ELSE [some |-> FALSE, point |-> start]
              [] direction = "Right" ->
                    IF col + 1 < prog.cols THEN [some |-> TRUE, point |-> <<row, col + 1>>]
                    ELSE [some |-> FALSE, point |-> start]
    IN  IF maybe_next.some
        THEN [some |-> TRUE, point |-> maybe_next.point,
              color |-> color_at(prog, maybe_next.point)]
        ELSE [some |-> FALSE, point |-> start, color |-> Black]

\* Option<((usize, usize), &Color)>; the interpreter calls it maybe_next_codel.
next_point(prog, start, direction) ==
    LET row == start[1]
        col == start[2]
        maybe_next ==
            CASE direction = "Up" ->
                    IF row >= 1 THEN [some |-> TRUE, point |-> <<row - 1, col>>]
                    ELSE [some |-> FALSE, point |-> start]
              [] direction = "Down" ->
                    IF row + 1 < prog.rows THEN [some |-> TRUE, point |-> <<row + 1, col>>]
                    ELSE [some |-> FALSE, point |-> start]
              [] direction = "Left" ->
                    IF col >= 1 THEN [some |-> TRUE, point |-> <<row, col - 1>>]
                    ELSE [some |-> FALSE, point |-> start]
              [] direction = "Right" ->
                    IF col + 1 < prog.cols THEN [some |-> TRUE, point |-> <<row, col + 1>>]
                    ELSE [some |-> FALSE, point |-> start]
    IN  IF maybe_next.some
        THEN [some |-> TRUE, point |-> maybe_next.point,
              color |-> color_at(prog, maybe_next.point)]
        ELSE [some |-> FALSE, point |-> start, color |-> Black]

---------------------------------------------------------------------------
\* parse/src/region.rs: the edge of a region.

codels_in_col(region, col) == {m[1] : m \in {x \in region.members : x[2] = col}}
codels_in_row(region, row) == {m[2] : m \in {x \in region.members : x[1] = row}}

Min(S) == CHOOSE x \in S : \A y \in S : x <= y
Max(S) == CHOOSE x \in S : \A y \in S : x >= y

\* Region_edge that stops at the end of the run of members that holds start.
Region_edge_of_run(region, start, direction) ==
    LET row == start[1]
        col == start[2]
        line == IF direction \in {"Up", "Down"} THEN codels_in_col(region, col)
                ELSE codels_in_row(region, row)
        from == IF direction \in {"Up", "Down"} THEN row ELSE col
        run == {x \in line : \A y \in Min({x, from})..Max({x, from}) : y \in line}
    IN  IF run = {} THEN [some |-> FALSE, point |-> start]
        ELSE [some |-> TRUE,
              point |-> CASE direction = "Up" -> <<Min(run), col>>
                          [] direction = "Down" -> <<Max(run), col>>
                          [] direction = "Left" -> <<row, Min(run)>>
                          [] direction = "Right" -> <<row, Max(run)>>]

\* first()/last() of the sorted rows or columns; unwrap panics on an empty list,
\* which [some |-> FALSE] stands for.
Region_edge(region, start, direction) ==
    LET row == start[1]
        col == start[2]
        line == IF direction \in {"Up", "Down"} THEN codels_in_col(region, col)
                ELSE codels_in_row(region, row)
    IN  IF line = {} THEN [some |-> FALSE, point |-> start]
        ELSE [some |-> TRUE,
              point |-> CASE direction = "Up" -> <<Min(line), col>>
                          [] direction = "Down" -> <<Max(line), col>>
                          [] direction = "Left" -> <<row, Min(line)>>
                          [] direction = "Right" -> <<row, Max(line)>>]

---------------------------------------------------------------------------
\* interpret/src/state.rs: the interpreter state.  stdout (what print! has
\* written) and panicked (a panic! or todo!() has ended the process) are the
\* effects of the commands outside the State struct.

State_new(stdin) ==
    [pointer_location |-> <<0, 0>>,
     pointer_direction |-> "Right",
     chooser_direction |-> "Left",
     stack |-> << >>,
     termination_counter |-> 0,
     stdin |-> Reverse(stdin),
     stdout |-> << >>,
     panicked |-> FALSE]

---------------------------------------------------------------------------
\* interpret/src/command.rs: the commands.

panic(s) == [s EXCEPT !.panicked = TRUE]

stack_push(s, v) == [s EXCEPT !.stack = Append(@, v)]
stack_drop(s, n) == [s EXCEPT !.stack = SubSeq(@, 1, Len(@) - n)]

\* Pushing the result of `+`, `-` or `*` on isize: a result out of range panics
\* in a build with overflow checks and wraps in a build without.
push_result(s, v) ==
    IF InRange(v) THEN stack_push(s, v)
    ELSE IF overflow_checks THEN panic(s)
    ELSE stack_push(s, Wrap(v))

push(s, current_region_size) == stack_push(s, Wrap(current_region_size))

pop(s) == IF s.stack = << >> THEN s ELSE stack_drop(s, 1)

\* add that pops before it checks that a second operand exists.
add_pops_first(s) ==
    IF Len(s.stack) >= 2
    THEN LET one == s.stack[Len(s.stack)]
             two == s.stack[Len(s.stack) - 1]
         IN  push_result(stack_drop(s, 2), one + two)
    ELSE IF Len(s.stack) = 1 THEN stack_drop(s, 1)
    ELSE s

add(s) ==
    IF Len(s.stack) >= 2
    THEN LET one == s.stack[Len(s.stack)]
             two == s.stack[Len(s.stack) - 1]
         IN  push_result(stack_drop(s, 2), one + two)
    ELSE s

subtract(s) ==
    IF Len(s.stack) >= 2
    THEN LET one == s.stack[Len(s.stack)]
             two == s.stack[Len(s.stack) - 1]
         IN  push_result(stack_drop(s, 2), two - one)
    ELSE s

multiply(s) ==
    IF Len(s.stack) >= 2
    THEN LET one == s.stack[Len(s.stack)]
             two == s.stack[Len(s.stack) - 1]
         IN  push_result(stack_drop(s, 2), two * one)
    ELSE s

\* divide without the test for a zero divisor: the division panics.
divide_unguarded(s) ==
    IF Len(s.stack) >= 2
    THEN LET one == s.stack[Len(s.stack)]
             two == s.stack[Len(s.stack) - 1]
         IN  IF one = 0 \/ (two = IntMin /\ one = -1) THEN panic(stack_drop(s, 2))
             ELSE stack_push(stack_drop(s, 2), TruncDiv(two, one))
    ELSE s

\* isize::MIN / -1 and isize::MIN % -1 panic in every build.
divide(s) ==
    IF Len(s.stack) >= 2 /\ Last(s.stack) # 0
    THEN LET one == s.stack[Len(s.stack)]
             two == s.stack[Len(s.stack) - 1]
         IN  IF two = IntMin /\ one = -1 THEN panic(stack_drop(s, 2))
             ELSE stack_push(stack_drop(s, 2), TruncDiv(two, one))
    ELSE s

modulo(s) ==
    IF Len(s.stack) >= 2 /\ Last(s.stack) # 0
    THEN LET one == s.stack[Len(s.stack)]
             two == s.stack[Len(s.stack) - 1]
         IN  IF two = IntMin /\ one = -1 THEN panic(stack_drop(s, 2))
             ELSE stack_push(stack_drop(s, 2), TruncRem(two, one))
    ELSE s

not(s) ==
    IF s.stack # << >>
    THEN stack_push(stack_drop(s, 1), IF Last(s.stack) = 0 THEN 1 ELSE 0)
    ELSE s

greater(s) ==
    IF Len(s.stack) >= 2
    THEN LET one == s.stack[Len(s.stack)]
             two == s.stack[Len(s.stack) - 1]
         IN  stack_push(stack_drop(s, 2), IF two > one THEN 1 ELSE 0)
    ELSE s

RECURSIVE rotate(_, _)
rotate(d, steps) == IF steps <= 0 THEN d ELSE rotate(direction_next(d), steps - 1)

RECURSIVE toggle(_, _)
toggle(c, steps) == IF steps <= 0 THEN c ELSE toggle(chooser_next(c), steps - 1)

\* pointer without the adjustment of a negative remainder.
pointer_truncated(s) ==
    IF s.stack # << >>
    THEN LET top == Last(s.stack)
             clockwise_steps == TruncRem(top, 4)
         IN  [stack_drop(s, 1) EXCEPT
                 !.pointer_direction = rotate(@, clockwise_steps)]
    ELSE s

pointer(s) ==
    IF s.stack # << >>
    THEN LET top == Last(s.stack)
             absolute_steps == TruncRem(top, 4)
             clockwise_steps == IF absolute_steps >= 0 THEN absolute_steps
                                ELSE 4 + absolute_steps
         IN  [stack_drop(s, 1) EXCEPT
                 !.pointer_direction = rotate(@, clockwise_steps)]
    ELSE s

\* switch without the absolute value of the remainder.
switch_signed(s) ==
    IF s.stack # << >>
    THEN LET top == Last(s.stack)
             steps == TruncRem(top, 2)
         IN  [stack_drop(s, 1) EXCEPT !.chooser_direction = toggle(@, steps)]
    ELSE s

switch(s) ==
    IF s.stack # << >>
    THEN LET top == Last(s.stack)
             steps == Abs(TruncRem(top, 2))
         IN  [stack_drop(s, 1) EXCEPT !.chooser_direction = toggle(@, steps)]
    ELSE s

duplicate(s) ==
    IF s.stack # << >>
    THEN stack_push(stack_push(stack_drop(s, 1), Last(s.stack)), Last(s.stack))
    ELSE s

\* The loop of roll for turns >= 0: pop().unwrap() panics on an empty stack and
\* insert panics when the index is past the end of the shortened stack.
RECURSIVE roll_forward(_, _, _)
roll_forward(s, index, turns) ==
    IF turns = 0 THEN s
    ELSE IF s.stack = << >> THEN panic(s)
    ELSE LET top == Last(s.stack)
             popped == stack_drop(s, 1)
         IN  IF index > Len(popped.stack) THEN panic(popped)
             ELSE roll_forward([popped EXCEPT !.stack = InsertAt(@, index, top)],
                               index, turns - 1)

\* The loop of roll for turns < 0: remove panics when the index is not in the stack.
RECURSIVE roll_backward(_, _, _)
roll_backward(s, index, turns) ==
    IF turns = 0 THEN s
    ELSE IF index >= Len(s.stack) THEN panic(s)
    ELSE LET bottom == s.stack[index + 1]
         IN  roll_backward([s EXCEPT !.stack = Append(RemoveAt(@, index), bottom)],
                           index, turns - 1)

\* roll with the two directions of turning exchanged.
roll_turns_reversed(s) ==
    LET stack_size == Len(s.stack)
    IN  IF stack_size < 2 THEN s
        ELSE LET final_stack_size == stack_size - 2
                 depth == s.stack[final_stack_size + 1]
             IN  IF depth >= 0 /\ depth <= final_stack_size
                 THEN LET turns == Last(s.stack)
                          popped == stack_drop(s, 2)
                      IN  IF turns >= 0
                          THEN roll_backward(popped, final_stack_size - depth, turns)
                          ELSE roll_forward(popped, final_stack_size - depth, -turns)
                 ELSE s

\* roll that pops its two operands before it checks the depth.
roll_pops_first(s) ==
    LET stack_size == Len(s.stack)
    IN  IF stack_size < 2 THEN s
        ELSE LET final_stack_size == stack_size - 2
                 depth == s.stack[final_stack_size + 1]
                 turns == Last(s.stack)
                 popped == stack_drop(s, 2)
             IN  IF depth >= 0 /\ depth <= final_stack_size
                 THEN IF turns >= 0
                      THEN roll_forward(popped, final_stack_size - depth, turns)
                      ELSE roll_backward(popped, final_stack_size - depth, -turns)
                 ELSE popped

roll(s) ==
    LET stack_size == Len(s.stack)
    IN  IF stack_size < 2 THEN s
        ELSE LET final_stack_size == stack_size - 2
                 depth == s.stack[final_stack_size + 1]
             IN  IF depth >= 0 /\ depth <= final_stack_size
                 THEN LET turns == Last(s.stack)
                          popped == stack_drop(s, 2)
                      IN  IF turns >= 0
                          THEN roll_forward(popped, final_stack_size - depth, turns)
                          ELSE roll_backward(popped, final_stack_size - depth, -turns)
                 ELSE s

\* todo!()
in_number(s) == panic(s)

\* todo!()
in_char(s) == panic(s)

out_number(s) ==
    IF s.stack # << >>
    THEN [stack_drop(s, 1) EXCEPT
             !.stdout = Append(@, [t |-> "number", v |-> Last(s.stack)])]
    ELSE s

\* u32::try_from(top).ok().and_then(char::from_u32): a Unicode scalar value.
is_char(v) == v >= 0 /\ v <= 1114111 /\ ~(55296 <= v /\ v <= 57343)

\* out_char that writes the value as a number.
out_char_as_number(s) ==
    IF s.stack # << >>
    THEN IF is_char(Last(s.stack))
         THEN [stack_drop(s, 1) EXCEPT
                  !.stdout = Append(@, [t |-> "number", v |-> Last(s.stack)])]
         ELSE stack_drop(s, 1)
    ELSE s

out_char(s) ==
    IF s.stack # << >>
    THEN IF is_char(Last(s.stack))
         THEN [stack_drop(s, 1) EXCEPT
                  !.stdout = Append(@, [t |-> "char", v |-> Last(s.stack)])]
         ELSE stack_drop(s, 1)
    ELSE s

\* execute with the rows of push and pop exchanged.
execute_push_pop_swapped(s, hue_change, lightness_change, region_size) ==
    CASE hue_change = 0 /\ lightness_change = 0 -> s
      [] hue_change = 0 /\ lightness_change = 1 -> pop(s)
      [] hue_change = 0 /\ lightness_change = 2 -> push(s, region_size)
      [] hue_change = 1 /\ lightness_change = 0 -> add(s)
      [] hue_change = 1 /\ lightness_change = 1 -> subtract(s)
      [] hue_change = 1 /\ lightness_change = 2 -> multiply(s)
      [] hue_change = 2 /\ lightness_change = 0 -> divide(s)
      [] hue_change = 2 /\ lightness_change = 1 -> modulo(s)
      [] hue_change = 2 /\ lightness_change = 2 -> not(s)
      [] hue_change = 3 /\ lightness_change = 0 -> greater(s)
      [] hue_change = 3 /\ lightness_change = 1 -> pointer(s)
      [] hue_change = 3 /\ lightness_change = 2 -> switch(s)
      [] hue_change = 4 /\ lightness_change = 0 -> duplicate(s)
      [] hue_change = 4 /\ lightness_change = 1 -> roll(s)
      [] hue_change = 4 /\ lightness_change = 2 -> in_number(s)
      [] hue_change = 5 /\ lightness_change = 0 -> in_char(s)
      [] hue_change = 5 /\ lightness_change = 1 -> out_number(s)
      [] hue_change = 5 /\ lightness_change = 2 -> out_char(s)
      [] OTHER -> panic(s)

\* The last arm of the match of execute is the one taken: no row of the table
\* is for (hue_change, lightness_change).
unexpected_change(hue_change, lightness_change) ==
    ~(hue_change \in 0..5 /\ lightness_change \in 0..2)

execute(s, hue_change, lightness_change, region_size) ==
    CASE hue_change = 0 /\ lightness_change = 0 -> s
      [] hue_change = 0 /\ lightness_change = 1 -> push(s, region_size)
      [] hue_change = 0 /\ lightness_change = 2 -> pop(s)
      [] hue_change = 1 /\ lightness_change = 0 -> add(s)
      [] hue_change = 1 /\ lightness_change = 1 -> subtract(s)
      [] hue_change = 1 /\ lightness_change = 2 -> multiply(s)
      [] hue_change = 2 /\ lightness_change = 0 -> divide(s)
      [] hue_change = 2 /\ lightness_change = 1 -> modulo(s)
      [] hue_change = 2 /\ lightness_change = 2 -> not(s)
      [] hue_change = 3 /\ lightness_change = 0 -> greater(s)
      [] hue_change = 3 /\ lightness_change = 1 -> pointer(s)
      [] hue_change = 3 /\ lightness_change = 2 -> switch(s)
      [] hue_change = 4 /\ lightness_change = 0 -> duplicate(s)
      [] hue_change = 4 /\ lightness_change = 1 -> roll(s)
      [] hue_change = 4 /\ lightness_change = 2 -> in_number(s)
      [] hue_change = 5 /\ lightness_change = 0 -> in_char(s)
      [] hue_change = 5 /\ lightness_change = 1 -> out_number(s)
      [] hue_change = 5 /\ lightness_change = 2 -> out_char(s)
      [] OTHER -> panic(s)

---------------------------------------------------------------------------
\* interpret/src/interpreter.rs: the stepping engine.

\* The walk of edge_coordinate: step in `direction` while the next cell holds
\* the same codel as the start.
RECURSIVE edge_walk(_, _, _, _)
edge_walk(prog, codel, at, direction) ==
    LET n == next_point(prog, at, direction)
    IN  IF n.some /\ n.color = codel THEN edge_walk(prog, codel, n.point, direction)
        ELSE at

edge_coordinate(prog, start, direction) ==
    edge_walk(prog, color_at(prog, start), start, direction)

disjoint_edge_coordinate(prog, start, direction) ==
    edge_coordinate(prog, start, direction)

first_edge(prog, s) ==
    disjoint_edge_coordinate(prog, s.pointer_location, s.pointer_direction)

second_edge(prog, s) ==
    disjoint_edge_coordinate(prog, first_edge(prog, s),
                             with_chooser(s.pointer_direction, s.chooser_direction))

\* next_coordinates that, after a slide, enters whatever is not White.
next_coordinates_slides_into_black(prog, s) ==
    LET blocked == [some |-> FALSE, location |-> s.pointer_location,
                    codel |-> Black, passed_white |-> FALSE]
        n == next_point(prog, second_edge(prog, s), s.pointer_direction)
    IN  IF n.some
        THEN CASE n.color = Black -> blocked
               [] n.color = White ->
                    LET white_edge == edge_coordinate(prog, n.point, s.pointer_direction)
                        c == next_point(prog, white_edge, s.pointer_direction)
                    IN  IF c.some /\ c.color # White
                        THEN [some |-> TRUE, location |-> c.point,
                              codel |-> c.color, passed_white |-> TRUE]
                        ELSE [some |-> TRUE, location |-> white_edge,
                              codel |-> White, passed_white |-> TRUE]
               [] OTHER -> [some |-> TRUE, location |-> n.point,
                            codel |-> n.color, passed_white |-> FALSE]
        ELSE blocked

\* next_coordinates that stops on the first white cell instead of sliding.
next_coordinates_without_slide(prog, s) ==
    LET blocked == [some |-> FALSE, location |-> s.pointer_location,
                    codel |-> Black, passed_white |-> FALSE]
        n == next_point(prog, second_edge(prog, s), s.pointer_direction)
    IN  IF n.some
        THEN CASE n.color = Black -> blocked
               [] n.color = White ->
                    LET c == next_point(prog, n.point, s.pointer_direction)
                    IN  IF c.some /\ c.color # White /\ c.color # Black
                        THEN [some |-> TRUE, location |-> c.point,
                              codel |-> c.color, passed_white |-> TRUE]
                        ELSE [some |-> TRUE, location |-> n.point,
                              codel |-> White, passed_white |-> TRUE]
               [] OTHER -> [some |-> TRUE, location |-> n.point,
                            codel |-> n.color, passed_white |-> FALSE]
        ELSE blocked

\* Option<((usize, usize), &Codel, bool)>
next_coordinates(prog, s) ==
    LET blocked == [some |-> FALSE, location |-> s.pointer_location,
                    codel |-> Black, passed_white |-> FALSE]
        n == next_point(prog, second_edge(prog, s), s.pointer_direction)
    IN  IF n.some
        THEN CASE n.color = Black -> blocked
               [] n.color = White ->
                    LET white_edge == edge_coordinate(prog, n.point, s.pointer_direction)
                        c == next_point(prog, white_edge, s.pointer_direction)
                    IN  IF c.some /\ c.color # White /\ c.color # Black
                        THEN [some |-> TRUE, location |-> c.point,
                              codel |-> c.color, passed_white |-> TRUE]
                        ELSE [some |-> TRUE, location |-> white_edge,
                              codel |-> White, passed_white |-> TRUE]
               [] OTHER -> [some |-> TRUE, location |-> n.point,
                            codel |-> n.color, passed_white |-> FALSE]
        ELSE blocked

\* advance_delta that looks at the current codel only.
advance_delta_ignores_passed_white(prog, s, n) ==
    LET current_codel == color_at(prog, s.pointer_location)
    IN  IF current_codel = White
        THEN [some |-> TRUE, hue |-> 0, lightness |-> 0]
        ELSE compare(current_codel, n.codel)

\* (delta_hue, delta_lightness) of a move to n; some is FALSE when compare
\* returns None, on which unwrap panics.
advance_delta(prog, s, n) ==
    LET current_codel == color_at(prog, s.pointer_location)
    IN  IF current_codel = White \/ n.passed_white
        THEN [some |-> TRUE, hue |-> 0, lightness |-> 0]
        ELSE compare(current_codel, n.codel)

\* current_region_size read after the move: the size of the block entered.
current_region_size_entered(prog, s) ==
    region_at(prog, next_coordinates(prog, s).location).size

current_region_size(prog, s) == region_at(prog, s.pointer_location).size

\* The branch of advance taken when next_coordinates returns Some(n).
advance_moved(prog, s, n) ==
    LET delta == advance_delta(prog, s, n)
    IN  IF ~delta.some THEN panic(s)
        ELSE LET executed == execute(s, delta.hue, delta.lightness,
                                     current_region_size(prog, s))
             IN  IF executed.panicked THEN executed
                 ELSE [executed EXCEPT !.pointer_location = n.location,
                                       !.termination_counter = 0]

\* advance_blocked with the parity test inverted: the direction on even attempts.
advance_blocked_odd_chooser(s) ==
    [s EXCEPT
        !.chooser_direction =
            IF s.termination_counter % 2 = 0 THEN @ ELSE chooser_next(@),
        !.pointer_direction =
            IF s.termination_counter % 2 = 0 THEN direction_next(@) ELSE @,
        !.termination_counter = @ + 1]

\* advance_blocked that rotates the direction on every attempt.
advance_blocked_direction_only(s) ==
    [s EXCEPT !.pointer_direction = direction_next(@),
              !.termination_counter = @ + 1]

\* The branch of advance taken when next_coordinates returns None.
advance_blocked(s) ==
    [s EXCEPT
        !.chooser_direction =
            IF s.termination_counter % 2 = 0 THEN chooser_next(@) ELSE @,
        !.pointer_direction =
            IF s.termination_counter % 2 = 0 THEN @ ELSE direction_next(@),
        !.termination_counter = @ + 1]

advance(prog, s) ==
    LET n == next_coordinates(prog, s)
    IN  IF n.some THEN advance_moved(prog, s, n) ELSE advance_blocked(s)

---------------------------------------------------------------------------
\* The inputs.

\* The colours of the grids that Spec runs.  Their transitions are push, pop,
\* add, subtract, in_char and out_char.
Palette == {Black, White, Color(0, 0), Color(0, 1), Color(1, 1)}

Grids ==
    {[rows |-> Rows, cols |-> Cols, at |-> a] : a \in [Cells(Rows, Cols) -> Palette]}

Inputs == {<<"4", "2">>}

\* No call of get_region is being followed.
NoFill ==
    [colors |-> [rows |-> 0, cols |-> 0, at |-> << >>], point |-> <<0, 0>>,
     members |-> {}, neighbors |-> << >>, seen |-> {}, pushed |-> << >>]

NoStep ==
    [kind |-> "none", hue_change |-> 0, lightness_change |-> 0,
     passed_white |-> FALSE, size |-> 0]

---------------------------------------------------------------------------
\* Spec: Interpreter::new, then Interpreter::run.

Init ==
    /\ program \in {Program_new(colors) : colors \in Grids}
    /\ state \in {State_new(stdin) : stdin \in Inputs}
    /\ overflow_checks \in BOOLEAN
    /\ phase = "run"
    /\ prev = state
    /\ last = NoStep
    /\ attempts = << >>
    /\ fill = NoFill

\* The condition of the `while` of run, in a process that has not panicked.
Running ==
    /\ phase = "run"
    /\ ~state.panicked
    /\ state.termination_counter < TerminationLimit

\* The model follows a run while its stack and output are within the bounds.
InBounds == Len(state.stack) <= MaxStack /\ Len(state.stdout) <= MaxOut

\* One iteration of the loop of run.
Advance ==
    /\ Running
    /\ InBounds
    /\ state' = advance(program, state)
    /\ prev' = state
    /\ LET n == next_coordinates(program, state)
           delta == advance_delta(program, state, n)
       IN  /\ last' = [kind |-> IF ~n.some THEN "blocked"
                                ELSE IF state'.panicked THEN "panicked"
                                ELSE "moved",
                       hue_change |-> IF n.some /\ delta.some THEN delta.hue ELSE 0,
                       lightness_change |->
                           IF n.some /\ delta.some THEN delta.lightness ELSE 0,
                       passed_white |-> n.passed_white,
                       size |-> current_region_size(program, state)]
           /\ attempts' = IF ~n.some
                          THEN Append(attempts, <<state.pointer_direction,
                                                  state.chooser_direction>>)
                          ELSE IF state'.panicked THEN attempts
                          ELSE << >>
    /\ UNCHANGED <<program, overflow_checks, phase, fill>>

Next == Advance

Spec == Init /\ [][Next]_vars

---------------------------------------------------------------------------
\* SpecCmd: one call of execute on a state drawn from a bounded set.

\* Stack values: the ends of the integer range, zero, and small values of both signs.
CmdValues == {IntMin, -7, -3, -1, 0, 1, 2, 3, 7, IntMax}

RECURSIVE SeqsUpTo(_, _)
SeqsUpTo(S, n) ==
    IF n = 0 THEN {<< >>}
    ELSE LET shorter == SeqsUpTo(S, n - 1)
         IN  shorter \cup {Append(q, v) : q \in shorter, v \in S}

\* Stacks for roll: some elements, then a depth and a number of turns on top.
RollBases == {<< >>, <<1>>, <<1, 2>>, <<1, 2, 3>>, <<1, 2, 3, 4, 5, 6>>}
RollDepths == -1..4
RollTurns == -4..4
RollStacks ==
    {base \o <<depth, turns>> : base \in RollBases, depth \in RollDepths,
                                turns \in RollTurns}

\* The operands of the examples of pointer and switch.
ExampleStacks == {<<5>>, <<-4>>}

CmdStacks == SeqsUpTo(CmdValues, MaxCmdStack) \cup RollStacks \cup ExampleStacks

\* Region sizes handed to push.
CmdSizes == {1, 5}

\* A program for the states of SpecCmd, which never advance.
CmdProgram == Program_new([rows |-> 1, cols |-> 1, at |-> [p \in Cells(1, 1) |-> White]])

InitCmd ==
    /\ program = CmdProgram
    /\ \E stdin \in Inputs, d \in Directions, c \in Choosers, stack \in CmdStacks :
          state = [State_new(stdin) EXCEPT !.pointer_direction = d,
                                           !.chooser_direction = c,
                                           !.stack = stack]
    /\ overflow_checks \in BOOLEAN
    /\ phase = "ready"
    /\ prev = state
    /\ last = NoStep
    /\ attempts = << >>
    /\ fill = NoFill

Execute ==
    /\ phase = "ready"
    /\ \E hue_change \in 0..(HUE_CYCLE_SIZE - 1),
          lightness_change \in 0..(LIGHTNESS_CYCLE_SIZE - 1),
          size \in CmdSizes :
          /\ state' = execute(state, hue_change, lightness_change, size)
          /\ last' = [kind |-> "command", hue_change |-> hue_change,
                      lightness_change |-> lightness_change,
                      passed_white |-> FALSE, size |-> size]
    /\ prev' = state
    /\ phase' = "done"
    /\ UNCHANGED <<program, overflow_checks, attempts, fill>>

NextCmd == Execute

SpecCmd == InitCmd /\ [][NextCmd]_vars

\* SpecIn: one call of execute on a state with input waiting, or with none.
InInputs == {<< >>, <<"7">>, <<"-", "3">>, <<"x">>, <<"4", "2">>}

InStacks == SeqsUpTo(CmdValues, 1)

InitIn ==
    /\ program = CmdProgram
    /\ \E stdin \in InInputs, d \in Directions, c \in Choosers, stack \in InStacks :
          state = [State_new(stdin) EXCEPT !.pointer_direction = d,
                                           !.chooser_direction = c,
                                           !.stack = stack]
    /\ overflow_checks \in BOOLEAN
    /\ phase = "ready"
    /\ prev = state
    /\ last = NoStep
    /\ attempts = << >>
    /\ fill = NoFill

SpecIn == InitIn /\ [][NextCmd]_vars

---------------------------------------------------------------------------
\* SpecCompare: Codel::compare on a pair of codels, in both orders, then
\* execute on the changes it returns, as advance does.

Codels ==
    {Black, White}
        \cup {Color(h, l) : h \in 0..(HUE_CYCLE_SIZE - 1),
                            l \in 0..(LIGHTNESS_CYCLE_SIZE - 1)}

InitCompare ==
    /\ program = CmdProgram
    /\ state \in {State_new(stdin) : stdin \in Inputs}
    /\ overflow_checks = TRUE
    /\ phase = "codels"
    /\ prev = state
    /\ \E self \in Codels, next \in Codels :
          last = [kind |-> "codels", self |-> self, next |-> next,
                  result |-> compare(Black, Black), reverse |-> compare(Black, Black)]
    /\ attempts = << >>
    /\ fill = NoFill

\* self.compare(next) and next.compare(self).
Compare ==
    /\ phase = "codels"
    /\ last' = [last EXCEPT !.kind = "compare",
                            !.result = compare(last.self, last.next),
                            !.reverse = compare(last.next, last.self)]
    /\ phase' = "compared"
    /\ UNCHANGED <<program, state, overflow_checks, prev, attempts, fill>>

\* execute on the changes that compare returned.
ExecuteChange ==
    /\ phase = "compared"
    /\ last.result.some
    /\ state' = execute(state, last.result.hue, last.result.lightness, 1)
    /\ prev' = state
    /\ phase' = "executed"
    /\ UNCHANGED <<program, overflow_checks, last, attempts, fill>>

NextCompare == Compare \/ ExecuteChange

SpecCompare == InitCompare /\ [][NextCompare]_vars

---------------------------------------------------------------------------
\* SpecRoll: roll, then the same depth and the opposite turns pushed, then roll
\* again.

\* The stacks on which roll is within its bounds: 0 <= depth <= the number of
\* elements below the two operands.
RollPairStacks ==
    {q \in RollStacks : q[Len(q) - 1] >= 0 /\ q[Len(q) - 1] <= Len(q) - 2}

InitRoll ==
    /\ program = CmdProgram
    /\ \E stdin \in Inputs, stack \in RollPairStacks :
          state = [State_new(stdin) EXCEPT !.stack = stack]
    /\ overflow_checks \in BOOLEAN
    /\ phase = "ready"
    /\ prev = state
    /\ last = NoStep
    /\ attempts = << >>
    /\ fill = NoFill

\* execute dispatching roll (hue change 4, lightness change 1).
RollCommand == [kind |-> "command", hue_change |-> 4, lightness_change |-> 1,
                passed_white |-> FALSE, size |-> 1]

\* The first roll; prev keeps the state it ran on.
RollOnce ==
    /\ phase = "ready"
    /\ state' = execute(state, 4, 1, 1)
    /\ prev' = state
    /\ last' = RollCommand
    /\ phase' = "rolled"
    /\ UNCHANGED <<program, overflow_checks, attempts, fill>>

\* The operands of the opposite roll are put on the stack.
PushOpposite ==
    /\ phase = "rolled"
    /\ ~state.panicked
    /\ LET depth == prev.stack[Len(prev.stack) - 1]
           turns == prev.stack[Len(prev.stack)]
       IN  /\ InRange(-turns)
           /\ state' = stack_push(stack_push(state, depth), -turns)
    /\ phase' = "opposite"
    /\ UNCHANGED <<program, overflow_checks, prev, last, attempts, fill>>

\* The second roll.
RollAgain ==
    /\ phase = "opposite"
    /\ state' = execute(state, 4, 1, 1)
    /\ phase' = "rolled_back"
    /\ UNCHANGED <<program, overflow_checks, prev, last, attempts, fill>>

NextRoll == RollOnce \/ PushOpposite \/ RollAgain

SpecRoll == InitRoll /\ [][NextRoll]_vars

---------------------------------------------------------------------------
\* SpecRow: Interpreter::run on the 1-row programs whose blocks, from left to
\* right, are left by push and out_char in turn.

\* The colour reached from c by a hue change and a lightness change.
ColorAfter(c, hue_change, lightness_change) ==
    Color((c.hue + hue_change) % HUE_CYCLE_SIZE,
          (c.lightness + lightness_change) % LIGHTNESS_CYCLE_SIZE)

\* The cells of a row of blocks of the given sizes, the first of colour c; the
\* blocks at odd places are left by push, those at even places by out_char.
RECURSIVE RowCells(_, _, _)
RowCells(sizes, c, place) ==
    IF sizes = << >> THEN << >>
    ELSE [i \in 1..Head(sizes) |-> c]
             \o RowCells(Tail(sizes),
                         IF place % 2 = 1 THEN ColorAfter(c, 0, 1)
                         ELSE ColorAfter(c, 5, 2),
                         place + 1)

RowSizes == 1..2

RowBlockSizes ==
    [1..3 -> RowSizes] \cup [1..5 -> RowSizes]

RowFirstColors == {Color(0, 0), Color(3, 1)}

RowGrids ==
    {LET cells == RowCells(sizes, c, 1)
     IN  [rows |-> 1, cols |-> Len(cells),
          at |-> [p \in Cells(1, Len(cells)) |-> cells[p[2] + 1]]] :
        sizes \in RowBlockSizes, c \in RowFirstColors}

InitRow ==
    /\ program \in {Program_new(colors) : colors \in RowGrids}
    /\ state \in {State_new(stdin) : stdin \in Inputs}
    /\ overflow_checks \in BOOLEAN
    /\ phase = "run"
    /\ prev = state
    /\ last = NoStep
    /\ attempts = << >>
    /\ fill = NoFill

SpecRow == InitRow /\ [][Next]_vars

---------------------------------------------------------------------------
\* SpecFill: one call of get_region followed iteration by iteration, then
\* Program::new on the same grid.

FillShape == <<3, 3>>

FillPalette == {White, Color(0, 0)}

FillGrids ==
    {[rows |-> FillShape[1], cols |-> FillShape[2], at |-> a] :
        a \in [Cells(FillShape[1], FillShape[2]) -> FillPalette]}

\* The locals of get_region(colors, point) before its loop.
fill_start(colors, point) ==
    [colors |-> colors, point |-> point,
     members |-> {}, neighbors |-> <<point>>, seen |-> {point},
     pushed |-> <<point>>]

\* The members, neighbors and seen of fill.
fill_locals(f) == [members |-> f.members, neighbors |-> f.neighbors, seen |-> f.seen]

\* The program before Program::new.
NoProgram == [points |-> << >>, rows |-> 0, cols |-> 0]

InitFill ==
    /\ \E colors \in FillGrids :
          \E point \in Cells(colors.rows, colors.cols) :
              fill = fill_start(colors, point)
    /\ program = NoProgram
    /\ state = State_new(<< >>)
    /\ overflow_checks = TRUE
    /\ phase = "fill"
    /\ prev = state
    /\ last = NoStep
    /\ attempts = << >>

\* FillStep that never inserts into seen.
FillStep_forgets_seen ==
    /\ phase = "fill"
    /\ fill.neighbors # << >>
    /\ Len(fill.pushed) < MaxFillPushes
    /\ LET f == fill_step(fill.colors, fill.colors.at[fill.point], fill_locals(fill))
       IN  fill' = [fill EXCEPT
                       !.members = f.members,
                       !.neighbors = f.neighbors,
                       !.pushed = @ \o SubSeq(f.neighbors, Len(fill.neighbors),
                                              Len(f.neighbors))]
    /\ UNCHANGED <<program, state, overflow_checks, phase, prev, last, attempts>>

\* One iteration of the `while let Some(neighbor) = neighbors.pop()` loop.
FillStep ==
    /\ phase = "fill"
    /\ fill.neighbors # << >>
    /\ Len(fill.pushed) < MaxFillPushes
    /\ LET f == fill_step(fill.colors, fill.colors.at[fill.point], fill_locals(fill))
       IN  fill' = [fill EXCEPT
                       !.members = f.members,
                       !.neighbors = f.neighbors,
                       !.seen = f.seen,
                       !.pushed = @ \o SubSeq(f.neighbors, Len(fill.neighbors),
                                              Len(f.neighbors))]
    /\ UNCHANGED <<program, state, overflow_checks, phase, prev, last, attempts>>

\* The loop has ended; Program::new builds the codels of the same grid.
Load ==
    /\ phase = "fill"
    /\ fill.neighbors = << >>
    /\ program' = Program_new(fill.colors)
    /\ phase' = "loaded"
    /\ UNCHANGED <<state, overflow_checks, prev, last, attempts, fill>>

\* Region::edge of the region of fill.point, from fill.point.
Edge ==
    /\ phase = "loaded"
    /\ \E direction \in Directions :
          last' = [kind |-> "edge", start |-> fill.point, direction |-> direction,
                   result |-> Region_edge(region_at(program, fill.point),
                                          fill.point, direction)]
    /\ phase' = "queried"
    /\ UNCHANGED <<program, state, overflow_checks, prev, attempts, fill>>

\* Program::next_point from fill.point.
NextPoint ==
    /\ phase = "loaded"
    /\ \E direction \in Directions :
          last' = [kind |-> "next_point", start |-> fill.point,
                   direction |-> direction,
                   result |-> next_point(program, fill.point, direction)]
    /\ phase' = "queried"
    /\ UNCHANGED <<program, state, overflow_checks, prev, attempts, fill>>

NextFill == FillStep \/ Load \/ Edge \/ NextPoint

SpecFill == InitFill /\ [][NextFill]_vars

\* The loop of get_region is not suspended forever.
SpecFillFair == SpecFill /\ WF_vars(FillStep)

---------------------------------------------------------------------------
\* Properties of the stepping engine, checked under Spec.

\* The cell one step in the pointer direction beyond the second edge.
ExitTarget(prog, s) == next_point(prog, second_edge(prog, s), s.pointer_direction)

Stepped == last.kind \in {"moved", "blocked", "panicked"}

\* C1: in every reachable state of run the termination counter is in 0..8, and
\* the run makes no further step exactly when the counter is 8.
C1_HaltsExactlyAtEight ==
    /\ state.termination_counter \in 0..TerminationLimit
    /\ (~Running) <=> (state.termination_counter = TerminationLimit)

\* The divergence of C1: the first advance of a program whose first transition
\* selects in_char ends the run at counter 0.
C1_Divergence ==
    /\ color_at(program, <<0, 0>>) = Color(1, 1)
    /\ color_at(program, <<0, 1>>) = Color(0, 1)
    /\ prev = State_new(<<"4", "2">>)
    /\ last.kind = "panicked" /\ last.hue_change = 5 /\ last.lightness_change = 0
    /\ state.panicked
    /\ state.termination_counter = 0

\* The part of C1 about the range of the counter alone.
C1_CounterInRange == state.termination_counter \in 0..TerminationLimit

\* C2: the counter is the number of blocked advances made in a row since the
\* last successful advance; a successful advance sets it to 0 and moves the
\* pointer to the new position, a blocked advance adds 1; and the run has
\* halted if and only if eight advances in a row were blocked.
C2_CounterCountsBlocked ==
    /\ state.termination_counter = Len(attempts)
    /\ last.kind = "moved" =>
          /\ state.termination_counter = 0
          /\ state.pointer_location = next_coordinates(program, prev).location
    /\ last.kind = "blocked" =>
          state.termination_counter = prev.termination_counter + 1
    /\ (~Running) <=> (Len(attempts) = TerminationLimit)

\* The part of C2 about the counter alone, without the statement on halting.
C2_CounterOnly ==
    /\ state.termination_counter = Len(attempts)
    /\ last.kind = "moved" =>
          /\ state.termination_counter = 0
          /\ state.pointer_location = next_coordinates(program, prev).location
    /\ last.kind = "blocked" =>
          state.termination_counter = prev.termination_counter + 1

\* C3: an advance is blocked exactly when the cell beyond the exit cell is
\* outside the grid or Black; a blocked advance at counter k toggles the
\* chooser and keeps the direction when k is even, rotates the direction
\* clockwise and keeps the chooser when k is odd, makes the counter k + 1 and
\* leaves the pointer location, the stack and the input buffer unchanged.
C3_BlockedAdvance ==
    Stepped =>
        LET target == ExitTarget(program, prev)
            k == prev.termination_counter
        IN  /\ (last.kind = "blocked") <=> (~target.some \/ target.color = Black)
            /\ last.kind = "blocked" =>
                  /\ state.termination_counter = k + 1
                  /\ IF k % 2 = 0
                     THEN /\ state.chooser_direction = chooser_next(prev.chooser_direction)
                          /\ state.chooser_direction # prev.chooser_direction
                          /\ state.pointer_direction = prev.pointer_direction
                     ELSE /\ state.pointer_direction = direction_next(prev.pointer_direction)
                          /\ state.chooser_direction = prev.chooser_direction
                  /\ state.pointer_location = prev.pointer_location
                  /\ state.stack = prev.stack
                  /\ state.stdin = prev.stdin
                  /\ state.stdout = prev.stdout

\* A blocked advance at an odd counter, after one at an even counter.
C3_Witness ==
    /\ last.kind = "blocked"
    /\ prev.termination_counter = 3
    /\ state.pointer_location # <<0, 0>>

\* C4: eight blocked advances in a row from counter 0 are made with eight
\* pairwise distinct (direction, chooser) pairs, so with every one of the
\* 4 x 2 pairs once, and at the halt the direction and the chooser are those
\* at the start of the stall.
C4_StallTriesAllPairs ==
    /\ \A i, j \in 1..Len(attempts) : attempts[i] = attempts[j] => i = j
    /\ state.termination_counter = TerminationLimit =>
          /\ Len(attempts) = 8
          /\ {attempts[i] : i \in 1..Len(attempts)} = Directions \X Choosers
          /\ state.pointer_direction = attempts[1][1]
          /\ state.chooser_direction = attempts[1][2]

\* A halt after a stall that began away from the initial direction and chooser.
C4_Witness ==
    /\ state.termination_counter = TerminationLimit
    /\ Len(attempts) = 8
    /\ attempts[1] = <<"Down", "Right">>

\* C5: in every step the first edge e1 is the member of the current region in
\* the pointer's row or column farthest in the pointer direction, and the exit
\* cell e2 is the member farthest from e1 in the chooser-rotated direction.
C5_ExitAtBlockExtremum ==
    Stepped =>
        LET region == region_at(program, prev.pointer_location)
            e1 == Region_edge(region, prev.pointer_location, prev.pointer_direction)
            e2 == Region_edge(region, e1.point,
                              with_chooser(prev.pointer_direction, prev.chooser_direction))
        IN  /\ e1.some /\ first_edge(program, prev) = e1.point
            /\ e2.some /\ second_edge(program, prev) = e2.point

\* The divergence of C5: in the block of five codels around <<0, 1>>, the walk
\* from <<0, 0>> to the right stops at <<0, 0>>; the farthest member of the block
\* in that row is <<0, 2>>.
C5_Divergence ==
    /\ color_at(program, <<0, 1>>) = Color(0, 1)
    /\ \A p \in Cells(Rows, Cols) \ {<<0, 1>>} : color_at(program, p) = Color(0, 0)
    /\ region_at(program, <<0, 0>>).size = 5
    /\ Stepped
    /\ prev.pointer_location = <<0, 0>> /\ prev.pointer_direction = "Right"
    /\ first_edge(program, prev) = <<0, 0>>
    /\ Region_edge(region_at(program, <<0, 0>>), <<0, 0>>, "Right").point = <<0, 2>>

\* C7: a successful advance that dispatches push pushes the number of codels
\* of the region the pointer was in before the move, and nothing else.
C7_PushesSizeOfBlockExited ==
    (last.kind = "moved" /\ last.hue_change = 0 /\ last.lightness_change = 1) =>
        /\ state.stack =
              Append(prev.stack,
                     Cardinality(region_at(program, prev.pointer_location).members))
        /\ Len(state.stack) = Len(prev.stack) + 1

\* A push on leaving a block whose size is not that of the block entered.
C7_Witness ==
    /\ last.kind = "moved" /\ last.hue_change = 0 /\ last.lightness_change = 1
    /\ region_at(program, prev.pointer_location).size = 3
    /\ region_at(program, state.pointer_location).size = 2
    /\ Last(state.stack) = 3

---------------------------------------------------------------------------
\* Properties of the commands, checked under SpecCmd.

Executed == phase = "done" /\ last.kind = "command"

\* The command executed was the one at (hue_change, lightness_change).
Ran(hue_change, lightness_change) ==
    /\ Executed
    /\ last.hue_change = hue_change
    /\ last.lightness_change = lightness_change

\* The 6 x 3 table of command names, by hue change and lightness change.
CommandTable ==
    << <<"nop", "push", "pop">>,
       <<"add", "subtract", "multiply">>,
       <<"divide", "modulo", "not">>,
       <<"greater", "pointer", "switch">>,
       <<"duplicate", "roll", "in_number">>,
       <<"in_char", "out_number", "out_char">> >>

CommandName(hue_change, lightness_change) ==
    CommandTable[hue_change + 1][lightness_change + 1]

\* The state that the command of the given name makes of s.
Command(name, s, size) ==
    CASE name = "nop" -> s
      [] name = "push" -> push(s, size)
      [] name = "pop" -> pop(s)
      [] name = "add" -> add(s)
      [] name = "subtract" -> subtract(s)
      [] name = "multiply" -> multiply(s)
      [] name = "divide" -> divide(s)
      [] name = "modulo" -> modulo(s)
      [] name = "not" -> not(s)
      [] name = "greater" -> greater(s)
      [] name = "pointer" -> pointer(s)
      [] name = "switch" -> switch(s)
      [] name = "duplicate" -> duplicate(s)
      [] name = "roll" -> roll(s)
      [] name = "in_number" -> in_number(s)
      [] name = "in_char" -> in_char(s)
      [] name = "out_number" -> out_number(s)
      [] name = "out_char" -> out_char(s)

\* C6: execute runs the command that the 6 x 3 table names for
\* (hue_change, lightness_change), and (0, 0) leaves the whole state unchanged.
C6_DispatchTable ==
    Executed =>
        /\ state = Command(CommandName(last.hue_change, last.lightness_change),
                           prev, last.size)
        /\ Ran(0, 0) => state = prev

\* A push dispatched by (0, 1) that grew the stack by the region size.
C6_Witness ==
    /\ Ran(0, 1)
    /\ prev.stack = <<7>>
    /\ state.stack = <<7, 5>>

\* The operands that a command needs, 0 for a command that needs none.
Operands(name) ==
    CASE name \in {"pop", "not", "duplicate", "pointer", "switch",
                   "out_number", "out_char"} -> 1
      [] name \in {"add", "subtract", "multiply", "divide", "modulo",
                   "greater", "roll"} -> 2
      [] OTHER -> 0

\* C8: a command that needs k operands, executed on a stack of fewer than k
\* elements, leaves the stack, the direction, the chooser and the output
\* unchanged, and does not end the run.
C8_UnderflowIsNoOp ==
    (/\ Executed
     /\ Len(prev.stack) <
            Operands(CommandName(last.hue_change, last.lightness_change))) =>
        /\ state.stack = prev.stack
        /\ state.pointer_direction = prev.pointer_direction
        /\ state.chooser_direction = prev.chooser_direction
        /\ state.stdout = prev.stdout
        /\ ~state.panicked

\* add on a stack of one element.
C8_Witness ==
    /\ Ran(1, 0)
    /\ prev.stack = <<3>>
    /\ state.stack = <<3>>

\* C9: divide and modulo on a stack of at least two elements whose top is 0
\* leave the stack unchanged.
C9_ZeroDivisorIsNoOp ==
    (/\ Ran(2, 0) \/ Ran(2, 1)
     /\ Len(prev.stack) >= 2
     /\ Last(prev.stack) = 0) =>
        /\ state.stack = prev.stack
        /\ ~state.panicked

\* divide on <<7, 0>>.
C9_Witness ==
    /\ Ran(2, 0)
    /\ prev.stack = <<7, 0>>
    /\ state.stack = <<7, 0>>

\* The remainder whose sign is that of the divisor.
FloorMod(a, b) ==
    LET r == TruncRem(a, b)
    IN  IF r # 0 /\ ((r < 0) # (b < 0)) THEN r + b ELSE r

\* C10: modulo with a non-zero top replaces the two top elements by the
\* remainder of second_from_top by top that is 0 or has the sign of top.
C10_ModuloSignOfDivisor ==
    (/\ Ran(2, 1)
     /\ Len(prev.stack) >= 2
     /\ Last(prev.stack) # 0) =>
        LET top == Last(prev.stack)
            second == prev.stack[Len(prev.stack) - 1]
            r == Last(state.stack)
        IN  /\ ~state.panicked
            /\ state.stack = Append(SubSeq(prev.stack, 1, Len(prev.stack) - 2),
                                    FloorMod(second, top))
            /\ r = 0 \/ ((r < 0) = (top < 0))

\* The divergence of C10 on its own example: (-7) modulo 3 leaves -1, not 2.
C10_Divergence ==
    /\ Ran(2, 1)
    /\ prev.stack = <<-7, 3>>
    /\ state.stack = <<-1>>

\* The two top elements of s.stack exchanged.
SwapTop(s) ==
    [s EXCEPT !.stack = SubSeq(@, 1, Len(@) - 2) \o <<s.stack[Len(s.stack)],
                                                       s.stack[Len(s.stack) - 1]>>]

\* The stack of prev below its two top elements.
Below2 == SubSeq(prev.stack, 1, Len(prev.stack) - 2)
Top1 == prev.stack[Len(prev.stack)]
Top2 == prev.stack[Len(prev.stack) - 1]

\* q is the quotient of a by b truncated toward zero.
IsTruncatedQuotient(q, a, b) ==
    LET r == a - q * b
    IN  /\ Abs(r) < Abs(b)
        /\ r = 0 \/ ((r < 0) = (a < 0))

\* What C11 says of the command that ran, on a stack of prev of two or more
\* elements.
C11_Effect ==
    /\ ~state.panicked
    /\ Ran(1, 1) => state.stack = Append(Below2, Top2 - Top1)
    /\ (Ran(2, 0) /\ Top1 # 0) =>
          /\ Len(state.stack) = Len(prev.stack) - 1
          /\ SubSeq(state.stack, 1, Len(state.stack) - 1) = Below2
          /\ IsTruncatedQuotient(Last(state.stack), Top2, Top1)
    /\ Ran(3, 0) => state.stack = Append(Below2, IF Top2 > Top1 THEN 1 ELSE 0)
    /\ Ran(1, 0) => /\ state = add(SwapTop(prev))
                    /\ Len(state.stack) = Len(prev.stack) - 1
                    /\ SubSeq(state.stack, 1, Len(state.stack) - 1) = Below2
    /\ Ran(1, 2) => /\ state = multiply(SwapTop(prev))
                    /\ Len(state.stack) = Len(prev.stack) - 1
                    /\ SubSeq(state.stack, 1, Len(state.stack) - 1) = Below2

C11_Commands == Ran(1, 0) \/ Ran(1, 1) \/ Ran(1, 2) \/ Ran(2, 0) \/ Ran(3, 0)

\* C11: on a stack of at least two elements (non-zero top for divide), subtract
\* pushes second_from_top - top, divide the quotient truncated toward zero,
\* greater 1 or 0; each replaces the two operands by one result and leaves the
\* elements below; add and multiply give the same with the operands exchanged.
C11_BinaryArithmetic ==
    (C11_Commands /\ Len(prev.stack) >= 2) => C11_Effect

\* The mathematical result of the arithmetic command that ran on prev.
MathResult ==
    CASE Ran(1, 0) -> Top2 + Top1
      [] Ran(1, 1) -> Top2 - Top1
      [] Ran(1, 2) -> Top2 * Top1
      [] Ran(2, 0) -> IF Top1 = 0 THEN 0 ELSE TruncDiv(Top2, Top1)
      [] Ran(2, 1) -> 0
      [] OTHER -> 0

\* C11 for the operands whose result is a stack integer.
C11_WhenRepresentable ==
    (C11_Commands /\ Len(prev.stack) >= 2 /\ InRange(MathResult)) => C11_Effect

\* The divergence of C11: the least integer divided by -1.
C11_Divergence ==
    /\ Ran(2, 0)
    /\ prev.stack = <<IntMin, -1>>
    /\ state.panicked

\* The window w turned `turns` times: a positive turn moves its last element
\* (the top of the stack) to its front (the bottom of the window).
Turned(w, turns) ==
    [i \in 1..Len(w) |-> w[((i - 1 - turns) % Len(w)) + 1]]

\* roll ran on a stack of prev that holds a depth (Top2) and turns (Top1).
RanRoll == Ran(4, 1) /\ Len(prev.stack) >= 2

\* C12: roll with 1 <= depth <= (stack length - 2) removes its two operands and
\* turns the top `depth` remaining elements |turns| times, a positive turn
\* moving the top element to the bottom of the window and a negative turn the
\* bottom element of the window to the top; the elements below are unchanged.
C12_RollTurnsWindow ==
    (RanRoll /\ 1 <= Top2 /\ Top2 <= Len(Below2)) =>
        LET kept == SubSeq(Below2, 1, Len(Below2) - Top2)
            window == SubSeq(Below2, Len(Below2) - Top2 + 1, Len(Below2))
        IN  state = [prev EXCEPT !.stack = kept \o Turned(window, Top1)]

\* The example of the tests: depth 3, turns 2 on 1..6.
C12_Witness ==
    /\ RanRoll
    /\ prev.stack = <<1, 2, 3, 4, 5, 6, 3, 2>>
    /\ state.stack = <<1, 2, 3, 5, 6, 4>>

\* The example of the tests with turns -2.
C12_WitnessNegative ==
    /\ RanRoll
    /\ prev.stack = <<1, 2, 3, 4, 5, 6, 3, -2>>
    /\ state.stack = <<1, 2, 3, 6, 4, 5>>

\* C13: roll with a negative depth, or a depth greater than the number of
\* elements below the two operands, leaves the stack as it was, operands
\* included.
C13_RollBadDepthIsNoOp ==
    (RanRoll /\ (Top2 < 0 \/ Top2 > Len(Below2))) =>
        /\ state.stack = prev.stack
        /\ ~state.panicked

\* A roll of depth 4 on three elements.
C13_Witness ==
    /\ RanRoll
    /\ prev.stack = <<1, 2, 3, 4, 2>>
    /\ state.stack = <<1, 2, 3, 4, 2>>

\* A roll of depth -1, as in the tests.
C13_WitnessNegative ==
    /\ RanRoll
    /\ prev.stack = <<1, 2, 3, 4, 5, 6, -1, 2>>
    /\ state.stack = prev.stack

\* s and q hold the same elements, each as many times.
IsPermutation(s, q) ==
    /\ Len(s) = Len(q)
    /\ \A v \in {s[i] : i \in 1..Len(s)} :
          Cardinality({i \in 1..Len(s) : s[i] = v})
              = Cardinality({i \in 1..Len(q) : q[i] = v})

\* C14: roll with 0 <= depth <= (stack length - 2) and any turns completes,
\* removes exactly its two operands and leaves a permutation of the remaining
\* elements, which for depth 0 are unchanged.
C14_RollIsTotal ==
    (RanRoll /\ 0 <= Top2 /\ Top2 <= Len(Below2)) =>
        /\ ~state.panicked
        /\ IsPermutation(state.stack, Below2)
        /\ Top2 = 0 => state.stack = Below2

\* The divergence of C14: depth 0 and one turn.
C14_Divergence ==
    /\ RanRoll
    /\ prev.stack = <<1, 0, 1>>
    /\ state.panicked

\* C14 for the depths of at least 1 and for no turns.
C14_PositiveDepthOrNoTurns ==
    (RanRoll /\ 0 <= Top2 /\ Top2 <= Len(Below2) /\ (Top2 >= 1 \/ Top1 = 0)) =>
        /\ ~state.panicked
        /\ IsPermutation(state.stack, Below2)
        /\ Top2 = 0 => state.stack = Below2

\* The directions in clockwise order, and d turned k quarter turns clockwise
\* (counterclockwise for a negative k).
Clockwise == <<"Up", "Right", "Down", "Left">>

Turn(d, k) ==
    LET i == CHOOSE j \in 1..4 : Clockwise[j] = d
    IN  Clockwise[((i - 1 + k) % 4) + 1]

\* C15: pointer on a non-empty stack pops the top value t and rotates the
\* direction clockwise by t mod 4 (Euclidean) steps, which for a negative t is
\* |t| steps counterclockwise; the chooser and the rest of the stack are
\* unchanged.
C15_PointerRotates ==
    (Ran(3, 1) /\ prev.stack # << >>) =>
        /\ state = [prev EXCEPT !.stack = Front(@),
                                !.pointer_direction = Turn(@, Top1 % 4)]
        /\ Top1 < 0 => state.pointer_direction
                           = Turn(prev.pointer_direction, -Abs(Top1))

\* The example: -3 turns Right to Down.
C15_Witness ==
    /\ Ran(3, 1)
    /\ prev.stack = <<-3>>
    /\ prev.pointer_direction = "Right"
    /\ state.pointer_direction = "Down"
    /\ state.stack = << >>

\* The example: 5 turns Right to Down.
C15_WitnessPositive ==
    /\ Ran(3, 1)
    /\ prev.stack = <<5>>
    /\ prev.pointer_direction = "Right"
    /\ state.pointer_direction = "Down"

\* C16: switch on a non-empty stack pops the top value t and changes the
\* chooser if and only if t is odd, whatever the sign of t; the direction and
\* the rest of the stack are unchanged.
C16_SwitchToggles ==
    (Ran(3, 2) /\ prev.stack # << >>) =>
        /\ state = [prev EXCEPT
                       !.stack = Front(@),
                       !.chooser_direction =
                           IF Top1 % 2 = 1
                           THEN (IF @ = "Left" THEN "Right" ELSE "Left")
                           ELSE @]

\* A negative odd value toggles the chooser.
C16_Witness ==
    /\ Ran(3, 2)
    /\ prev.stack = <<-3>>
    /\ prev.chooser_direction = "Left"
    /\ state.chooser_direction = "Right"
    /\ state.stack = << >>

\* The examples: 3 toggles, -4 does not.
C16_WitnessExamples ==
    /\ Ran(3, 2)
    /\ prev.chooser_direction = "Left"
    /\ \/ prev.stack = <<3>> /\ state.chooser_direction = "Right"
       \/ prev.stack = <<-4>> /\ state.chooser_direction = "Left"

\* C17: out_char on a stack whose top value is not a Unicode scalar value
\* writes nothing and leaves the stack unchanged.
C17_OutCharInvalidIsNoOp ==
    (Ran(5, 2) /\ prev.stack # << >> /\ ~is_char(Top1)) =>
        /\ state.stdout = prev.stdout
        /\ state.stack = prev.stack

\* The divergence of C17: the invalid value is gone.
C17_Divergence ==
    /\ Ran(5, 2)
    /\ prev.stack = <<-1>>
    /\ state.stack = << >>
    /\ state.stdout = prev.stdout

\* C17 without the restoring of the stack: nothing is written and the run
\* goes on.
C17_WritesNothing ==
    (Ran(5, 2) /\ prev.stack # << >> /\ ~is_char(Top1)) =>
        /\ state.stdout = prev.stdout
        /\ ~state.panicked

---------------------------------------------------------------------------
\* Properties of the input commands, checked under SpecIn.

\* The input not yet consumed, in the order it was supplied (State::new keeps
\* it reversed).
Waiting == Reverse(prev.stdin)

\* The Unicode scalar values of the characters of InInputs.
CodePoints ==
    [c \in {"-", "2", "3", "4", "7", "x"} |->
        CASE c = "-" -> 45
          [] c = "2" -> 50
          [] c = "3" -> 51
          [] c = "4" -> 52
          [] c = "7" -> 55
          [] c = "x" -> 120]

\* C18: in_char with input waiting removes the first character not yet
\* consumed and pushes its Unicode scalar value; with no input waiting it
\* leaves the whole state unchanged and the run goes on.
C18_InCharConsumesFront ==
    Ran(5, 0) =>
        IF Waiting # << >>
        THEN state = [prev EXCEPT !.stdin = Reverse(Tail(Waiting)),
                                  !.stack = Append(@, CodePoints[Head(Waiting)])]
        ELSE state = prev

\* The divergence of C18, with input waiting and with none.
C18_Divergence ==
    /\ Ran(5, 0)
    /\ Waiting = <<"4", "2">>
    /\ state.panicked
    /\ state.stack = prev.stack

C18_DivergenceEmpty ==
    /\ Ran(5, 0)
    /\ Waiting = << >>
    /\ state.panicked

\* The decimal digits, and the number of leading characters of w that make a
\* signed decimal integer (0 when there is none).
DecimalDigits == <<"0", "1", "2", "3", "4", "5", "6", "7", "8", "9">>

IsDigit(c) == \E i \in 1..10 : DecimalDigits[i] = c

DigitValue(c) == (CHOOSE i \in 1..10 : DecimalDigits[i] = c) - 1

RECURSIVE LeadingDigits(_)
LeadingDigits(w) ==
    IF w # << >> /\ IsDigit(Head(w)) THEN 1 + LeadingDigits(Tail(w)) ELSE 0

RECURSIVE DecimalValue(_)
DecimalValue(w) ==
    IF w = << >> THEN 0 ELSE 10 * DecimalValue(Front(w)) + DigitValue(Last(w))

\* The parse of the front of w: [some, value, length].
ParseFront(w) ==
    LET negative == w # << >> /\ Head(w) = "-"
        digits == IF negative THEN Tail(w) ELSE w
        n == LeadingDigits(digits)
        magnitude == DecimalValue(SubSeq(digits, 1, n))
        value == IF negative THEN -magnitude ELSE magnitude
    IN  [some |-> n > 0 /\ InRange(value),
         value |-> value,
         length |-> IF negative THEN n + 1 ELSE n]

\* C19: in_number parses a signed decimal integer from the front of the input
\* and pushes it; when there is no input or its front is not an integer, the
\* stack and the input are unchanged and the run goes on.
C19_InNumberParsesFront ==
    Ran(4, 2) =>
        LET parsed == ParseFront(Waiting)
        IN  /\ ~state.panicked
            /\ IF parsed.some
               THEN /\ state.stack = Append(prev.stack, parsed.value)
                    /\ state.stdin
                           = Reverse(SubSeq(Waiting, parsed.length + 1, Len(Waiting)))
               ELSE /\ state.stack = prev.stack
                    /\ state.stdin = prev.stdin

\* The divergence of C19: an integer waiting, a letter waiting, nothing waiting.
C19_Divergence ==
    /\ Ran(4, 2)
    /\ Waiting = <<"-", "3">>
    /\ state.panicked
    /\ state.stack = prev.stack

C19_DivergenceNoInteger ==
    /\ Ran(4, 2)
    /\ Waiting \in {<< >>, <<"x">>}
    /\ state.panicked

---------------------------------------------------------------------------
\* Overflow of the arithmetic commands, checked under SpecCmd.

C20_Commands == Ran(1, 0) \/ Ran(1, 1) \/ Ran(1, 2) \/ Ran(2, 0) \/ Ran(2, 1)

\* C20: add, subtract, multiply, divide and modulo never abort the run, and on
\* operands whose mathematical result is not a stack integer they leave the
\* stack unchanged, so that no wrapped value is pushed.
C20_OverflowIsNoOp ==
    (C20_Commands /\ Len(prev.stack) >= 2) =>
        /\ ~state.panicked
        /\ ~InRange(MathResult) => state.stack = prev.stack

\* The divergence of C20 in a build with overflow checks: the sum past the
\* greatest integer panics after both operands were popped.
C20_Divergence ==
    /\ Ran(1, 0)
    /\ prev.stack = <<IntMax, 1>>
    /\ overflow_checks
    /\ state.panicked
    /\ state.stack = << >>

\* The divergence of C20 in a build without overflow checks: the wrapped sum
\* is pushed.
C20_DivergenceWrapped ==
    /\ Ran(1, 0)
    /\ prev.stack = <<IntMax, 1>>
    /\ ~overflow_checks
    /\ state.stack = <<IntMin>>

\* The least integer divided by -1, or taken modulo -1, panics in both builds.
C20_DivergenceDivision ==
    /\ Ran(2, 0) \/ Ran(2, 1)
    /\ prev.stack = <<IntMin, -1>>
    /\ ~overflow_checks
    /\ state.panicked

\* The arithmetic commands do not abort on operands whose result is a stack
\* integer, the least integer modulo -1 apart.
C20_NoAbortWhenRepresentable ==
    (C20_Commands /\ Len(prev.stack) >= 2 /\ InRange(MathResult)
        /\ ~(Ran(2, 1) /\ Top2 = IntMin /\ Top1 = -1)) => ~state.panicked

---------------------------------------------------------------------------
\* Properties of white codels, checked under Spec.

\* The last step found a way forward from prev (next_coordinates gave Some).
Succeeded == last.kind \in {"moved", "panicked"}

\* C21: a successful advance that starts on a White codel or passes through
\* white executes no command: only the pointer location and the counter, which
\* becomes 0, change, whatever the colours on either side.
C21_WhiteExecutesNothing ==
    (Succeeded /\ (color_at(program, prev.pointer_location) = White
                      \/ last.passed_white)) =>
        /\ state = [prev EXCEPT !.pointer_location = state.pointer_location,
                                !.termination_counter = 0]
        /\ ~state.panicked

\* A slide through white between two blocks whose colours would select push,
\* on a stack that holds a value.
C21_Witness ==
    /\ last.kind = "moved" /\ last.passed_white
    /\ color_at(program, prev.pointer_location) = Color(0, 0)
    /\ color_at(program, state.pointer_location) = Color(0, 1)
    /\ prev.stack # << >>
    /\ state.stack = prev.stack

\* A step from a White codel into a coloured block.
C21_WitnessFromWhite ==
    /\ last.kind = "moved"
    /\ color_at(program, prev.pointer_location) = White
    /\ color_at(program, state.pointer_location) = Color(1, 1)
    /\ state.pointer_location # prev.pointer_location

\* The cell k steps from p in direction d, which may lie outside the grid.
Ahead(p, d, k) ==
    CASE d = "Up" -> <<p[1] - k, p[2]>>
      [] d = "Down" -> <<p[1] + k, p[2]>>
      [] d = "Left" -> <<p[1], p[2] - k>>
      [] d = "Right" -> <<p[1], p[2] + k>>

InGrid(p) == p \in Cells(program.rows, program.cols)

IsWhite(p) == InGrid(p) /\ color_at(program, p) = White

IsColored(p) == InGrid(p) /\ color_at(program, p).kind = "Color"

\* The last cell of the straight run of white cells that starts at p and goes
\* in direction d.
LastWhite(p, d) ==
    LET runs == {k \in 0..(program.rows + program.cols) :
                    \A j \in 0..k : IsWhite(Ahead(p, d, j))}
    IN  Ahead(p, d, Max(runs))

\* The last step looked at a White cell beyond the exit cell of prev.
SlideStarted ==
    /\ Stepped
    /\ ExitTarget(program, prev).some
    /\ ExitTarget(program, prev).color = White

\* C22: when the cell beyond the exit cell in direction d is White, the
\* pointer slides straight in direction d and lands on the first non-white cell
\* ahead if it is Colored, and otherwise on the last white cell of the run; the
\* cell beyond a white landing cell is never White, and the advance succeeds
\* with passed_white true.
C22_SlideThroughWhite ==
    SlideStarted =>
        LET d == prev.pointer_direction
            white_edge == LastWhite(ExitTarget(program, prev).point, d)
            beyond == Ahead(white_edge, d, 1)
        IN  /\ last.kind = "moved"
            /\ last.passed_white
            /\ state.pointer_location
                   = IF IsColored(beyond) THEN beyond ELSE white_edge
            /\ IsWhite(state.pointer_location)
                   => ~IsWhite(Ahead(state.pointer_location, d, 1))

\* A slide over two white cells that ends on the second, at the grid edge.
C22_Witness ==
    /\ SlideStarted
    /\ prev.pointer_direction = "Left"
    /\ prev.pointer_location = <<0, 2>>
    /\ color_at(program, <<0, 1>>) = White
    /\ state.pointer_location = <<0, 0>>
    /\ color_at(program, <<0, 0>>) = White

\* A slide over one white cell into a coloured block.
C22_WitnessColored ==
    /\ SlideStarted
    /\ prev.pointer_direction = "Right"
    /\ prev.pointer_location = <<0, 0>>
    /\ color_at(program, <<0, 1>>) = White
    /\ state.pointer_location = <<0, 2>>
    /\ IsColored(<<0, 2>>)

\* A slide that stops on a white cell in front of a Black cell.
C22_WitnessBlack ==
    /\ SlideStarted
    /\ prev.pointer_direction = "Right"
    /\ state.pointer_location = <<0, 1>>
    /\ color_at(program, <<0, 1>>) = White
    /\ color_at(program, <<0, 2>>) = Black

---------------------------------------------------------------------------
\* Properties of the regions, checked under SpecFill.

Adjacent(a, b) == Abs(a[1] - b[1]) + Abs(a[2] - b[2]) = 1

\* The cells reachable from the cells of S by up/down/left/right steps over
\* cells of the given colour.
RECURSIVE Reach(_, _, _)
Reach(colors, color, S) ==
    LET T == S \cup {q \in Cells(colors.rows, colors.cols) :
                        /\ colors.at[q] = color
                        /\ \E s \in S : Adjacent(s, q)}
    IN  IF T = S THEN S ELSE Reach(colors, color, T)

\* The connected same-colour component of p.
Component(colors, p) == Reach(colors, colors.at[p], {p})

Loaded == phase \in {"loaded", "queried"}

\* C23: for every grid and every point p, the members of region_at(p) are the
\* maximal set of cells reachable from p over cells of p's colour: it contains
\* p, is 4-connected, holds only cells of p's colour, cannot be extended, and
\* size is the number of members.
C23_RegionIsComponent ==
    Loaded =>
        \A p \in Cells(program.rows, program.cols) :
            LET region == region_at(program, p)
            IN  /\ p \in region.members
                /\ region.members = Component(fill.colors, p)
                /\ \A m \in region.members : fill.colors.at[m] = fill.colors.at[p]
                /\ \A q \in Cells(program.rows, program.cols) \ region.members :
                      fill.colors.at[q] = fill.colors.at[p]
                          => \A m \in region.members : ~Adjacent(m, q)
                /\ region.size = Cardinality(region.members)

\* The same for the call of get_region followed from fill.point.
C23_FillIsComponent ==
    (phase = "fill" /\ fill.neighbors = << >>) =>
        fill.members = Component(fill.colors, fill.point)

\* A loaded grid whose centre is surrounded by a ring of eight cells of the
\* other colour, read from the last cell of the ring.
C23_Witness ==
    /\ Loaded
    /\ fill.colors.at[<<1, 1>>] = White
    /\ \A p \in Cells(3, 3) \ {<<1, 1>>} : fill.colors.at[p] = Color(0, 0)
    /\ region_at(program, <<2, 2>>).size = 8
    /\ region_at(program, <<1, 1>>).members = {<<1, 1>>}

\* The regions of the loaded program.
Regions == {region_at(program, p) : p \in Cells(program.rows, program.cols)}

\* C24: after loading a grid the regions partition it: every cell belongs to
\* exactly one region, two cells carry equal regions if and only if they are
\* in the same connected same-colour component, and the union of the members of
\* all regions is the set of the cells of the grid.
C24_RegionsPartitionGrid ==
    Loaded =>
        LET cells == Cells(program.rows, program.cols)
        IN  /\ \A p \in cells :
                  Cardinality({r \in Regions : p \in r.members}) = 1
            /\ \A p, q \in cells :
                  (region_at(program, p) = region_at(program, q))
                      <=> (q \in Component(fill.colors, p))
            /\ UNION {r.members : r \in Regions} = cells

\* A loaded grid with two components of one colour that touch at a corner
\* only, and so carry different regions.
C24_Witness ==
    /\ Loaded
    /\ fill.colors.at[<<0, 0>>] = White /\ fill.colors.at[<<1, 1>>] = White
    /\ fill.colors.at[<<0, 1>>] = Color(0, 0) /\ fill.colors.at[<<1, 0>>] = Color(0, 0)
    /\ region_at(program, <<0, 0>>) # region_at(program, <<1, 1>>)
    /\ region_at(program, <<0, 0>>).members = {<<0, 0>>}
    /\ Cardinality(Regions) >= 4

\* The last step was a call of Region::edge.
EdgeCalled == phase = "queried" /\ last.kind = "edge"

\* C25: for every region R, member p and direction, R.edge(p, direction) is
\* defined and is a member of R in p's column (Up, Down) or row (Left, Right):
\* the least or greatest member row of the column, the least or greatest
\* member column of the row, also when cells that are not members lie in
\* between; so edge(p, Up).row <= p.row <= edge(p, Down).row and
\* edge(p, Left).col <= p.col <= edge(p, Right).col.
C25_EdgeIsExtremeMember ==
    EdgeCalled =>
        LET members == region_at(program, last.start).members
            p == last.start
            e == last.result.point
            column == {m \in members : m[2] = p[2]}
            row == {m \in members : m[1] = p[1]}
        IN  /\ last.result.some
            /\ e \in members
            /\ last.direction = "Up" =>
                  e \in column /\ (\A m \in column : e[1] <= m[1]) /\ e[1] <= p[1]
            /\ last.direction = "Down" =>
                  e \in column /\ (\A m \in column : e[1] >= m[1]) /\ p[1] <= e[1]
            /\ last.direction = "Left" =>
                  e \in row /\ (\A m \in row : e[2] <= m[2]) /\ e[2] <= p[2]
            /\ last.direction = "Right" =>
                  e \in row /\ (\A m \in row : e[2] >= m[2]) /\ p[2] <= e[2]

\* The edge of the ring of eight cells from (0, 1) downward: (2, 1), beyond the
\* centre, which is not a member.
C25_Witness ==
    /\ EdgeCalled
    /\ region_at(program, <<0, 1>>).size = 8
    /\ <<1, 1>> \notin region_at(program, <<0, 1>>).members
    /\ last.start = <<0, 1>>
    /\ last.direction = "Down"
    /\ last.result.point = <<2, 1>>

\* The last step was a call of Program::next_point.
NextPointCalled == phase = "queried" /\ last.kind = "next_point"

\* C26: next_point(p, direction) for a p of the grid returns the adjacent cell
\* in that direction with the colour stored at that cell when the cell has its
\* row in 0..rows and its column in 0..cols, and none otherwise; it never
\* returns a cell outside the grid, and the cell does not depend on colours.
C26_NextPointIsNeighbourInGrid ==
    NextPointCalled =>
        LET target == Ahead(last.start, last.direction, 1)
        IN  IF target \in Cells(program.rows, program.cols)
            THEN /\ last.result.some
                 /\ last.result.point = target
                 /\ last.result.color = fill.colors.at[target]
            ELSE ~last.result.some

\* A step inside the grid to a cell of a colour other than that of the start.
C26_Witness ==
    /\ NextPointCalled
    /\ last.start = <<1, 1>> /\ last.direction = "Down"
    /\ fill.colors.at[<<1, 1>>] = White
    /\ last.result.some
    /\ last.result.point = <<2, 1>>
    /\ last.result.color = Color(0, 0)

\* The four steps that leave the grid.
C26_WitnessUp ==
    NextPointCalled /\ last.start = <<0, 1>> /\ last.direction = "Up"
        /\ ~last.result.some

C26_WitnessLeft ==
    NextPointCalled /\ last.start = <<1, 0>> /\ last.direction = "Left"
        /\ ~last.result.some

C26_WitnessDown ==
    NextPointCalled /\ last.start = <<2, 1>> /\ last.direction = "Down"
        /\ ~last.result.some

C26_WitnessRight ==
    NextPointCalled /\ last.start = <<1, 2>> /\ last.direction = "Right"
        /\ ~last.result.some

---------------------------------------------------------------------------
\* Properties of the 1-row programs, checked under SpecRow.

\* The sizes of the blocks of the row from column col on, left to right.
RECURSIVE RowBlocks(_, _)
RowBlocks(prog, col) ==
    IF col >= prog.cols THEN << >>
    ELSE <<region_at(prog, <<0, col>>).size>>
             \o RowBlocks(prog, col + region_at(prog, <<0, col>>).size)

\* The characters of one pass from left to right: the sizes of the blocks that
\* are left by push.
RowText ==
    LET blocks == RowBlocks(program, 0)
    IN  [i \in 1..((Len(blocks) - 1) \div 2) |->
            [t |-> "char", v |-> blocks[2 * i - 1]]]

\* C27, as claimed: the complete output of the run is the characters whose
\* code points are the pushed block sizes, each once and in order.
C27_OutputIsTextOnce ==
    /\ Len(state.stdout) <= Len(RowText)
    /\ \A i \in 1..Len(state.stdout) : state.stdout[i] = RowText[i]

\* C27, amended: the output of the run begins with the characters whose code
\* points are the pushed block sizes, in order; the run does not halt after
\* them: from the last block the pointer turns round, walks back to the first
\* block executing nothing that changes the stack or the output, and writes
\* the same characters again on every later pass from left to right.
C27_OutputRepeatsText ==
    /\ \A i \in 1..Len(state.stdout) :
          state.stdout[i] = RowText[((i - 1) % Len(RowText)) + 1]
    /\ ~state.panicked
    /\ state.termination_counter < TerminationLimit
    /\ Len(state.stack) <= 1

\* The second pass has written the first character again.
C27_Witness ==
    /\ Len(state.stdout) = Len(RowText) + 1
    /\ Last(state.stdout) = RowText[1]
    /\ last.kind = "moved" /\ last.hue_change = 5 /\ last.lightness_change = 2

\* The pointer back on the first block after the first pass.
C27_WitnessWalkedBack ==
    /\ state.stdout = RowText
    /\ state.pointer_location = <<0, 0>>
    /\ state.pointer_direction = "Left"
    /\ state.stack = << >>

---------------------------------------------------------------------------
\* Termination of the flood fill, checked under SpecFillFair.

\* C28: the flood fill of get_region terminates for every grid and every
\* start cell: its work list becomes empty after finitely many iterations,
\* although a cell can be pushed on the work list more than once.
C28_FillTerminates == <>(fill.neighbors = << >>)

\* The followed fill is never cut: while the work list holds a cell, the number
\* of pushes is below the bound.
C28_FillNeverCut ==
    fill.neighbors # << >> => Len(fill.pushed) < MaxFillPushes

\* A fill of a region of at least four cells that has ended after it pushed a
\* member on the work list more than once.
C28_Witness ==
    /\ phase = "fill"
    /\ fill.neighbors = << >>
    /\ Cardinality(fill.members) >= 4
    /\ \E i, j \in 1..Len(fill.pushed) :
          /\ i < j
          /\ fill.pushed[i] = fill.pushed[j]
          /\ fill.pushed[i] \in fill.members

---------------------------------------------------------------------------
\* Properties of a roll and its opposite, checked under SpecRoll.

\* C29: on every stack on which both rolls are within their bounds, roll with
\* (depth d, turns t) and then roll with (depth d, turns -t) on the result
\* both complete and restore the original remaining stack.
C29_OppositeRollRestores ==
    /\ phase \in {"rolled", "opposite", "rolled_back"} => ~state.panicked
    /\ phase = "rolled_back" => state.stack = Below2

\* The divergence of C29: the first roll, of depth 0 and one turn, panics.
C29_Divergence ==
    /\ phase = "rolled"
    /\ prev.stack = <<1, 2, 0, 1>>
    /\ state.panicked

\* C29 for the rolls of depth at least 1 and the rolls of no turns.
C29_WhenDepthPositive ==
    (Top2 >= 1 \/ Top1 = 0) =>
        /\ phase \in {"rolled", "opposite", "rolled_back"} => ~state.panicked
        /\ phase = "rolled_back" => state.stack = Below2

\* A roll of depth 3 and two turns undone by the opposite roll.
C29_Restored ==
    /\ phase = "rolled_back"
    /\ prev.stack = <<1, 2, 3, 4, 5, 6, 3, 2>>
    /\ state.stack = <<1, 2, 3, 4, 5, 6>>

---------------------------------------------------------------------------
\* Properties of the colour changes, checked under SpecCompare.

Compared == phase \in {"compared", "executed"}

\* C30: for the cycle sizes 6 (hue) and 3 (lightness) and all a, b below the
\* cycle size, cyclic_distance(a, b, n) is (b - a) mod n, lies in 0..n-1, and
\* added to cyclic_distance(b, a, n) gives 0 modulo n; so compare on two
\* coloured codels yields a hue change in 0..5 and a lightness change in 0..2,
\* and execute does not take its arm for an unexpected change.
C30_ChangesAreCyclicDistances ==
    (Compared /\ last.self.kind = "Color" /\ last.next.kind = "Color") =>
        LET r == last.result
            v == last.reverse
        IN  /\ r.some
            /\ r.hue = (last.next.hue - last.self.hue) % HUE_CYCLE_SIZE
            /\ r.lightness
                   = (last.next.lightness - last.self.lightness) % LIGHTNESS_CYCLE_SIZE
            /\ r.hue \in 0..(HUE_CYCLE_SIZE - 1)
            /\ r.lightness \in 0..(LIGHTNESS_CYCLE_SIZE - 1)
            /\ (r.hue + v.hue) % HUE_CYCLE_SIZE = 0
            /\ (r.lightness + v.lightness) % LIGHTNESS_CYCLE_SIZE = 0
            /\ ~unexpected_change(r.hue, r.lightness)

\* The changes from (hue 1, lightness 1) to (hue 0, lightness 0) go round the
\* cycles, and execute ran on them.
C30_Witness ==
    /\ phase = "executed"
    /\ last.self = Color(1, 1) /\ last.next = Color(0, 0)
    /\ last.result.hue = 5 /\ last.result.lightness = 2
    /\ last.reverse.hue = 1 /\ last.reverse.lightness = 1

\* The distances of the examples: from hue 5 to hue 0, and from hue 0 to hue 1.
C30_WitnessExamples ==
    /\ Compared
    /\ \/ last.self = Color(5, 0) /\ last.next = Color(0, 0) /\ last.result.hue = 1
       \/ last.self = Color(0, 0) /\ last.next = Color(1, 0) /\ last.result.hue = 1

---------------------------------------------------------------------------
\* Properties of the codels the pointer is on, checked under Spec.

\* The last step computed its changes by Codel::compare: it found a way
\* forward, not from a White codel and not through white.
ComparedColours ==
    /\ Succeeded
    /\ color_at(program, prev.pointer_location) # White
    /\ ~last.passed_white

\* C31: for every grid, also when its top-left codel is Black, a step never
\* aborts while classifying the transition: whenever the changes are computed
\* by comparison, the codel left and the codel entered are both coloured.
C31_ComparisonOnColours ==
    ComparedColours =>
        /\ color_at(program, prev.pointer_location).kind = "Color"
        /\ next_coordinates(program, prev).codel.kind = "Color"
        /\ advance_delta(program, prev, next_coordinates(program, prev)).some

\* The divergence of C31: the first step from a Black top-left codel into a
\* coloured codel panics on the unwrap of compare.
C31_Divergence ==
    /\ color_at(program, <<0, 0>>) = Black
    /\ color_at(program, <<0, 1>>) = Color(0, 0)
    /\ prev = State_new(<<"4", "2">>)
    /\ last.kind = "panicked"
    /\ ~compare(Black, Color(0, 0)).some
    /\ state.panicked
    /\ state.pointer_location = <<0, 0>>

\* C31 for the grids whose top-left codel is not Black.
C31_WhenStartNotBlack ==
    (ComparedColours /\ color_at(program, <<0, 0>>) # Black) =>
        /\ color_at(program, prev.pointer_location).kind = "Color"
        /\ next_coordinates(program, prev).codel.kind = "Color"
        /\ advance_delta(program, prev, next_coordinates(program, prev)).some

\* C32: in every reachable state the pointer location is inside the grid,
\* and if the top-left codel is not Black the pointer is never on a Black
\* codel; every successful advance changes the pointer location.
C32_PointerOnGridOffBlack ==
    /\ state.pointer_location[1] \in 0..(program.rows - 1)
    /\ state.pointer_location[2] \in 0..(program.cols - 1)
    /\ color_at(program, <<0, 0>>) # Black
           => color_at(program, state.pointer_location) # Black
    /\ last.kind = "moved" => state.pointer_location # prev.pointer_location

\* A move past a Black codel: from (1, 0) to (1, 1), below the Black (0, 1).
C32_Witness ==
    /\ last.kind = "moved"
    /\ color_at(program, <<0, 0>>) # Black
    /\ color_at(program, <<0, 1>>) = Black
    /\ prev.pointer_location = <<1, 0>>
    /\ state.pointer_location = <<1, 1>>

\* A slide that stops on the white cell in front of a Black cell.
C32_WitnessBeforeBlack ==
    /\ last.kind = "moved" /\ last.passed_white
    /\ color_at(program, <<0, 2>>) = Black
    /\ state.pointer_location = <<0, 1>>
    /\ prev.pointer_location = <<0, 0>>

\* The last step moved the pointer from a coloured codel, not through white.
MovedBetweenColours ==
    /\ last.kind = "moved"
    /\ color_at(program, prev.pointer_location).kind = "Color"
    /\ ~last.passed_white

\* C33: whenever an advance succeeds from a coloured codel without passing
\* through white, the codel entered belongs to a different region than the one
\* left: the pointer never moves to another cell of its own block, and a (0, 0)
\* transition arises only between distinct blocks.
C33_MoveLeavesBlock ==
    MovedBetweenColours =>
        region_at(program, state.pointer_location)
            # region_at(program, prev.pointer_location)

\* The divergence of C33: in the block (0,0), (1,0), (1,1) beside a Black
\* (0,1), the pointer moves from (0,0) to (1,1), a cell of the same block.
C33_Divergence ==
    /\ MovedBetweenColours
    /\ color_at(program, <<0, 1>>) = Black
    /\ prev.pointer_location = <<0, 0>>
    /\ prev.pointer_direction = "Right" /\ prev.chooser_direction = "Right"
    /\ state.pointer_location = <<1, 1>>
    /\ <<1, 1>> \in region_at(program, <<0, 0>>).members
    /\ last.hue_change = 0 /\ last.lightness_change = 0

\* C33 for the steps whose exit cell is on the pointer's own line: the second
\* edge is the first edge.
C33_WhenExitOnPointerLine ==
    (MovedBetweenColours /\ second_edge(program, prev) = first_edge(program, prev)) =>
        region_at(program, state.pointer_location)
            # region_at(program, prev.pointer_location)

====
